---- MODULE Spec2Model ----
(***************************************************************************)
(* Model of the djinnius lexer, src/token.rs: tokenize(input) scans the    *)
(* input left to right with one character of lookahead and returns either  *)
(* the token list or the first error.  A character is a one-character      *)
(* string, a text (input, word, comment) is a sequence of characters.      *)
(* One action of the model is one iteration of the main loop of tokenize,  *)
(* i.e. one arm of its `match c`, inner scanning loop included.            *)
(***************************************************************************)
EXTENDS Naturals, Sequences, FiniteSets, TLC

VARIABLES input, pos, loc, tokens, starts, result, cmp

vars == <<input, pos, loc, tokens, starts, result, cmp>>

(***************************************************************************)
(* Bounds of the model.                                                    *)
(***************************************************************************)
\* every text over Alphabet of at most MaxLen characters is an input
MaxLen == 4

(***************************************************************************)
(* Characters.                                                             *)
(***************************************************************************)
TAB_SIZE == 4

Lower ==
    {"a", "b", "c", "d", "e", "f", "g", "h", "i", "j", "k", "l", "m",
     "n", "o", "p", "q", "r", "s", "t", "u", "v", "w", "x", "y", "z"}

Upper ==
    {"A", "B", "C", "D", "E", "F", "G", "H", "I", "J", "K", "L", "M",
     "N", "O", "P", "Q", "R", "S", "T", "U", "V", "W", "X", "Y", "Z"}

Digit == {"0", "1", "2", "3", "4", "5", "6", "7", "8", "9"}

\* alphabetic characters outside ASCII (two bytes in UTF-8)
NonAsciiAlpha == {"é"}

is_alphabetic(c) == c \in Lower \cup Upper \cup NonAsciiAlpha

is_alphanumeric(c) == is_alphabetic(c) \/ c \in Digit

\* char::len_utf8: the number of bytes a character takes in a String
len_utf8(c) == IF c \in NonAsciiAlpha THEN 2 ELSE 1

\* String::len: the length of a text in bytes
RECURSIVE str_len(_)
str_len(w) == IF w = <<>> THEN 0 ELSE len_utf8(Head(w)) + str_len(Tail(w))

(***************************************************************************)
(* Loc, Token, TokenizeError, TokenizeResult.                              *)
(***************************************************************************)
Loc(l, c) == [line |-> l, column |-> c]

LocDefault == Loc(0, 0)

\* a token: its variant, its payload (empty for the variants without one)
\* and its location
Token(k, t, l) == [kind |-> k, text |-> t, loc |-> l]

\* the variants of Token
TokenKinds ==
    {"Identifier", "Comment", "Equal", "Colon", "Semicolon", "OpenParen",
     "CloseParen", "OpenBrace", "CloseBrace", "OpenAngleBracket",
     "CloseAngleBracket", "DirectiveExtern", "DirectiveImport", "LangCpp",
     "LangJava", "LangObjC", "KeywordEnum", "KeywordRecord",
     "KeywordInterface", "KeywordStatic", "KeywordDeriving", "KeywordBool",
     "KeywordI8", "KeywordI16", "KeywordI32", "KeywordI64", "KeywordF32",
     "KeywordF64", "KeywordString", "KeywordBinary", "KeywordDate",
     "KeywordList", "KeywordSet", "KeywordMap", "KeywordOptional"}

\* the variants without payload that the match of eq pairs with themselves
EqUnitArms ==
    {"Equal", "Colon", "Semicolon", "OpenParen", "CloseParen", "OpenBrace",
     "CloseBrace", "OpenAngleBracket", "CloseAngleBracket", "DirectiveExtern",
     "DirectiveImport", "LangCpp", "LangJava", "LangObjC", "KeywordEnum",
     "KeywordRecord", "KeywordInterface", "KeywordStatic", "KeywordDeriving",
     "KeywordBool", "KeywordI8", "KeywordI16", "KeywordI32", "KeywordI64",
     "KeywordF32", "KeywordF64", "KeywordString", "KeywordBinary",
     "KeywordDate", "KeywordList", "KeywordSet", "KeywordMap",
     "KeywordOptional"}

\* mutant of token_eq: the derived equality, which compares the location too
token_eq_derived(a, b) == a = b

\* PartialEq for Token: the match on (self, other), arm by arm
token_eq(a, b) ==
    CASE a.kind = "Identifier" /\ b.kind = "Identifier" -> a.text = b.text
      [] a.kind = "Comment" /\ b.kind = "Comment" -> a.text = b.text
      [] a.kind \in EqUnitArms /\ b.kind = a.kind -> TRUE
      [] OTHER -> FALSE

Pending == [tag |-> "Pending", tokens |-> <<>>, err |-> "", loc |-> LocDefault]

Ok(toks) == [tag |-> "Ok", tokens |-> toks, err |-> "", loc |-> LocDefault]

Err(e, l) == [tag |-> "Err", tokens |-> <<>>, err |-> e, loc |-> l]

(***************************************************************************)
(* The match of tokenize: the arm a character is dispatched to.            *)
(***************************************************************************)
\* mutant of Whitespace: the tab is not skipped
WhitespaceNoTab == {" ", "\r", "\n"}

Whitespace == {" ", "\t", "\r", "\n"}

PunctToken(c) ==
    CASE c = "=" -> "Equal"
      [] c = ":" -> "Colon"
      [] c = ";" -> "Semicolon"
      [] c = "(" -> "OpenParen"
      [] c = ")" -> "CloseParen"
      [] c = "{" -> "OpenBrace"
      [] c = "}" -> "CloseBrace"
      [] c = "<" -> "OpenAngleBracket"
      [] c = ">" -> "CloseAngleBracket"

Punct == {"=", ":", ";", "(", ")", "{", "}", "<", ">"}

\* mutant of IsWordStart: a digit starts a word as well
IsWordStartAlnum(c) == is_alphanumeric(c) \/ c = "_"

IsWordStart(c) == is_alphabetic(c) \/ c = "_"

ArmOf(c) ==
    CASE c \in Whitespace -> "Whitespace"
      [] c = "#" -> "Comment"
      [] c = "@" -> "Directive"
      [] c \in Punct -> "Punct"
      [] c = "+" -> "Lang"
      [] IsWordStart(c) -> "Word"
      [] OTHER -> "Invalid"

(***************************************************************************)
(* The arms.  A scan state s is [pos, loc, tokens, starts, result]: pos is *)
(* the number of characters taken from the iterator, starts[i] the         *)
(* position in the input of the first character of tokens[i].              *)
(***************************************************************************)
\* mutant of WhitespaceLoc: a tab advances the column to the next tab stop
WhitespaceLocTabStop(l, c) ==
    IF c = "\n"
    THEN Loc(l.line + 1, 0)
    ELSE Loc(l.line,
             IF c = "\t"
             THEN ((l.column \div TAB_SIZE) + 1) * TAB_SIZE
             ELSE l.column + 1)

\* mutant of NewlineLoc: the column is reset, the line is not advanced
NewlineLocSameLine(l) == Loc(l.line, 0)

NewlineLoc(l) == Loc(l.line + 1, 0)

WhitespaceLoc(l, c) ==
    IF c = "\n"
    THEN NewlineLoc(l)
    ELSE Loc(l.line, l.column + (IF c = "\t" THEN TAB_SIZE ELSE 1))

\* mutant of WhitespaceStep: the character is looked at but not taken
WhitespaceStepPeek(in, s) ==
    [s EXCEPT !.loc = WhitespaceLoc(s.loc, in[s.pos + 1])]

WhitespaceStep(in, s) ==
    [s EXCEPT !.pos = s.pos + 1,
              !.loc = WhitespaceLoc(s.loc, in[s.pos + 1])]

\* the comment loop: peek, stop at a newline or at the end, else take
RECURSIVE CommentEnd(_, _)
CommentEnd(in, p) ==
    IF p < Len(in) /\ in[p + 1] # "\n" THEN CommentEnd(in, p + 1) ELSE p

\* mutant of PushComment: the texts are merged without the newline
PushCommentNoNewline(toks, comment, l) ==
    IF toks # <<>> /\ toks[Len(toks)].kind = "Comment"
    THEN [toks EXCEPT ![Len(toks)].text = @ \o comment]
    ELSE Append(toks, Token("Comment", comment, l))

\* mutant of PushComment: every comment is pushed as a token of its own
PushCommentAlways(toks, comment, l) ==
    Append(toks, Token("Comment", comment, l))

\* mutant of PushComment: the text is merged into the latest Comment of the
\* list, whatever was pushed after it
PushCommentIntoLatest(toks, comment, l) ==
    LET cs == {i \in 1..Len(toks) : toks[i].kind = "Comment"}
        latest == CHOOSE i \in cs : \A j \in cs : j <= i
    IN  IF cs # {}
        THEN [toks EXCEPT ![latest].text = @ \o <<"\n">> \o comment]
        ELSE Append(toks, Token("Comment", comment, l))

\* mutant of PushComment: a merge moves the Comment to the latest '#'
PushCommentMoveLoc(toks, comment, l) ==
    IF toks # <<>> /\ toks[Len(toks)].kind = "Comment"
    THEN [toks EXCEPT ![Len(toks)].text = @ \o <<"\n">> \o comment,
                      ![Len(toks)].loc = l]
    ELSE Append(toks, Token("Comment", comment, l))

\* tokens.last_mut() is a Comment: append to it, else push
PushComment(toks, comment, l) ==
    IF toks # <<>> /\ toks[Len(toks)].kind = "Comment"
    THEN [toks EXCEPT ![Len(toks)].text = @ \o <<"\n">> \o comment]
    ELSE Append(toks, Token("Comment", comment, l))

CommentLoc(l) == Loc(l.line + 1, 0)

CommentStep(in, s) ==
    LET e == CommentEnd(in, s.pos + 1)
        comment == SubSeq(in, s.pos + 2, e)
        toks == PushComment(s.tokens, comment, s.loc)
    IN  [s EXCEPT !.pos = e,
                  !.tokens = toks,
                  !.starts = IF Len(toks) > Len(s.tokens)
                             THEN Append(s.starts, s.pos + 1) ELSE s.starts,
                  !.loc = CommentLoc(s.loc)]

\* the loop reading the word after '@'
RECURSIVE DirectiveWordEnd(_, _)
DirectiveWordEnd(in, p) ==
    IF p < Len(in) /\ (is_alphabetic(in[p + 1]) \/ in[p + 1] = "_")
    THEN DirectiveWordEnd(in, p + 1)
    ELSE p

\* mutant of DirectiveToken: the directive is matched by prefix
DirectiveTokenPrefix(word) ==
    CASE Len(word) >= 6 /\ SubSeq(word, 1, 6) = <<"e", "x", "t", "e", "r", "n">> ->
             "DirectiveExtern"
      [] Len(word) >= 6 /\ SubSeq(word, 1, 6) = <<"i", "m", "p", "o", "r", "t">> ->
             "DirectiveImport"
      [] OTHER -> "UnknownDirective"

DirectiveToken(word) ==
    CASE word = <<"e", "x", "t", "e", "r", "n">> -> "DirectiveExtern"
      [] word = <<"i", "m", "p", "o", "r", "t">> -> "DirectiveImport"
      [] OTHER -> "UnknownDirective"

DirectiveStep(in, s) ==
    LET e == DirectiveWordEnd(in, s.pos + 1)
        word == SubSeq(in, s.pos + 2, e)
        word_len == str_len(word)
        k == DirectiveToken(word)
    IN  IF k = "UnknownDirective"
        THEN [s EXCEPT !.pos = e, !.result = Err("UnknownDirective", s.loc)]
        ELSE [s EXCEPT !.pos = e,
                       !.tokens = Append(s.tokens, Token(k, <<>>, s.loc)),
                       !.starts = Append(s.starts, s.pos + 1),
                       !.loc = Loc(s.loc.line, s.loc.column + word_len + 1)]

PunctStep(in, s) ==
    [s EXCEPT !.pos = s.pos + 1,
              !.tokens = Append(s.tokens,
                                Token(PunctToken(in[s.pos + 1]), <<>>, s.loc)),
              !.starts = Append(s.starts, s.pos + 1),
              !.loc = Loc(s.loc.line, s.loc.column + 1)]

\* mutant of LangToken: an unknown lookahead falls back to LangCpp
LangTokenDefaultCpp(pk) ==
    CASE pk = "j" -> "LangJava"
      [] pk = "o" -> "LangObjC"
      [] OTHER -> "LangCpp"

\* the token of '+' for the peeked character pk, "" when there is none
LangToken(pk) ==
    CASE pk = "c" -> "LangCpp"
      [] pk = "j" -> "LangJava"
      [] pk = "o" -> "LangObjC"
      [] OTHER -> "UnknownLanguage"

\* mutant of LangStep: the peeked letter is left in the iterator
LangStepNoConsume(in, s) ==
    LET p == s.pos + 1
        pk == IF p < Len(in) THEN in[p + 1] ELSE ""
        k == LangToken(pk)
    IN  IF k = "UnknownLanguage"
        THEN [s EXCEPT !.pos = p, !.result = Err("UnknownLanguage", s.loc)]
        ELSE [s EXCEPT !.pos = p,
                       !.tokens = Append(s.tokens, Token(k, <<>>, s.loc)),
                       !.starts = Append(s.starts, s.pos + 1),
                       !.loc = Loc(s.loc.line, s.loc.column + 2)]

LangStep(in, s) ==
    LET p == s.pos + 1
        pk == IF p < Len(in) THEN in[p + 1] ELSE ""
        k == LangToken(pk)
    IN  IF k = "UnknownLanguage"
        THEN [s EXCEPT !.pos = p, !.result = Err("UnknownLanguage", s.loc)]
        ELSE [s EXCEPT !.pos = p + 1,
                       !.tokens = Append(s.tokens, Token(k, <<>>, s.loc)),
                       !.starts = Append(s.starts, s.pos + 1),
                       !.loc = Loc(s.loc.line, s.loc.column + 2)]

\* mutant of WordEnd: the run stops at the first character not alphabetic
RECURSIVE WordEndAlphabetic(_, _)
WordEndAlphabetic(in, p) ==
    IF p < Len(in) /\ is_alphabetic(in[p + 1])
    THEN WordEndAlphabetic(in, p + 1)
    ELSE p

\* the loop reading a word
RECURSIVE WordEnd(_, _)
WordEnd(in, p) ==
    IF p < Len(in) /\ (is_alphanumeric(in[p + 1]) \/ in[p + 1] = "_")
    THEN WordEnd(in, p + 1)
    ELSE p

\* mutant of KeywordToken: the table lacks the spelling i8
KeywordTokenNoI8(word) ==
    CASE word = <<"e", "n", "u", "m">> -> "KeywordEnum"
      [] word = <<"r", "e", "c", "o", "r", "d">> -> "KeywordRecord"
      [] word = <<"i", "n", "t", "e", "r", "f", "a", "c", "e">> -> "KeywordInterface"
      [] word = <<"s", "t", "a", "t", "i", "c">> -> "KeywordStatic"
      [] word = <<"d", "e", "r", "i", "v", "i", "n", "g">> -> "KeywordDeriving"
      [] word = <<"b", "o", "o", "l">> -> "KeywordBool"
      [] word = <<"i", "1", "6">> -> "KeywordI16"
      [] word = <<"i", "3", "2">> -> "KeywordI32"
      [] word = <<"i", "6", "4">> -> "KeywordI64"
      [] word = <<"f", "3", "2">> -> "KeywordF32"
      [] word = <<"f", "6", "4">> -> "KeywordF64"
      [] word = <<"s", "t", "r", "i", "n", "g">> -> "KeywordString"
      [] word = <<"b", "i", "n", "a", "r", "y">> -> "KeywordBinary"
      [] word = <<"d", "a", "t", "e">> -> "KeywordDate"
      [] word = <<"l", "i", "s", "t">> -> "KeywordList"
      [] word = <<"s", "e", "t">> -> "KeywordSet"
      [] word = <<"m", "a", "p">> -> "KeywordMap"
      [] word = <<"o", "p", "t", "i", "o", "n", "a", "l">> -> "KeywordOptional"
      [] OTHER -> "Identifier"

KeywordToken(word) ==
    CASE word = <<"e", "n", "u", "m">> -> "KeywordEnum"
      [] word = <<"r", "e", "c", "o", "r", "d">> -> "KeywordRecord"
      [] word = <<"i", "n", "t", "e", "r", "f", "a", "c", "e">> -> "KeywordInterface"
      [] word = <<"s", "t", "a", "t", "i", "c">> -> "KeywordStatic"
      [] word = <<"d", "e", "r", "i", "v", "i", "n", "g">> -> "KeywordDeriving"
      [] word = <<"b", "o", "o", "l">> -> "KeywordBool"
      [] word = <<"i", "8">> -> "KeywordI8"
      [] word = <<"i", "1", "6">> -> "KeywordI16"
      [] word = <<"i", "3", "2">> -> "KeywordI32"
      [] word = <<"i", "6", "4">> -> "KeywordI64"
      [] word = <<"f", "3", "2">> -> "KeywordF32"
      [] word = <<"f", "6", "4">> -> "KeywordF64"
      [] word = <<"s", "t", "r", "i", "n", "g">> -> "KeywordString"
      [] word = <<"b", "i", "n", "a", "r", "y">> -> "KeywordBinary"
      [] word = <<"d", "a", "t", "e">> -> "KeywordDate"
      [] word = <<"l", "i", "s", "t">> -> "KeywordList"
      [] word = <<"s", "e", "t">> -> "KeywordSet"
      [] word = <<"m", "a", "p">> -> "KeywordMap"
      [] word = <<"o", "p", "t", "i", "o", "n", "a", "l">> -> "KeywordOptional"
      [] OTHER -> "Identifier"

WordStep(in, s) ==
    LET e == WordEnd(in, s.pos + 1)
        word == SubSeq(in, s.pos + 1, e)
        word_len == str_len(word)
        k == KeywordToken(word)
    IN  [s EXCEPT !.pos = e,
                  !.tokens = Append(s.tokens,
                                    Token(k, IF k = "Identifier" THEN word ELSE <<>>,
                                          s.loc)),
                  !.starts = Append(s.starts, s.pos + 1),
                  !.loc = Loc(s.loc.line, s.loc.column + word_len)]

InvalidStep(in, s) ==
    [s EXCEPT !.pos = s.pos + 1, !.result = Err("InvalidChar", s.loc)]

\* the loop has run out of characters: Ok(tokens)
FinishStep(in, s) == [s EXCEPT !.result = Ok(s.tokens)]

\* one iteration of `while let Some(c) = iter.next()`, or the return after it
Step(in, s) ==
    IF s.pos >= Len(in)
    THEN FinishStep(in, s)
    ELSE LET arm == ArmOf(in[s.pos + 1])
         IN  CASE arm = "Whitespace" -> WhitespaceStep(in, s)
               [] arm = "Comment" -> CommentStep(in, s)
               [] arm = "Directive" -> DirectiveStep(in, s)
               [] arm = "Punct" -> PunctStep(in, s)
               [] arm = "Lang" -> LangStep(in, s)
               [] arm = "Word" -> WordStep(in, s)
               [] OTHER -> InvalidStep(in, s)

Start ==
    [pos |-> 0, loc |-> LocDefault, tokens |-> <<>>, starts |-> <<>>,
     result |-> Pending]

RECURSIVE Run(_, _)
Run(in, s) == IF s.result.tag # "Pending" THEN s ELSE Run(in, Step(in, s))

\* tokenize as a function of its input
tokenize(in) == Run(in, Start).result

(***************************************************************************)
(* Inputs: every text over Alphabet of at most MaxLen characters, and the  *)
(* inputs of the tests and of the scenarios.                               *)
(***************************************************************************)
Alphabet == {" ", "\t", "\n", "#", "@", "+", "=", "c", "i", "8", "-"}

BoundedInputs == UNION {[1..n -> Alphabet] : n \in 0..MaxLen}

InPaths ==
    <<"@", "e", "x", "t", "e", "r", "n", " ", "\"", "a", "/", "b", ".", "y", "a", "m", "l", "\"", "\n", "@", "i", "m", "p", "o", "r", "t", " ", "\"", "a", "/", "b", ".", "i", "d", "l", "\"">>
InTwoComments ==
    <<"#", " ", "A", "\n", "#", " ", "B">>
InThreeComments ==
    <<"#", "x", "\n", "#", "y", "\n", "#", "z">>
InOptional ==
    <<"o", "p", "t", "i", "o", "n", "a", "l">>
InOptionalValue ==
    <<"o", "p", "t", "i", "o", "n", "a", "l", "_", "v", "a", "l", "u", "e">>
InOptionalUpper ==
    <<"O", "p", "t", "i", "o", "n", "a", "l">>
InOptionals ==
    <<"o", "p", "t", "i", "o", "n", "a", "l", "s">>
InAbcDash ==
    <<"a", "b", "c", " ", "-">>
InXyzPlus ==
    <<"x", "y", "z", "\n", "+", "x">>
InUnknown ==
    <<"@", "u", "n", "k", "n", "o", "w", "n">>
InExterns ==
    <<"@", "e", "x", "t", "e", "r", "n", "s">>
InImportX ==
    <<"@", "i", "m", "p", "o", "r", "t", "_", "x">>
InExternImport ==
    <<"@", "e", "x", "t", "e", "r", "n", " ", "@", "i", "m", "p", "o", "r", "t">>
InCpp ==
    <<"+", "c", "p", "p">>
InCrTab ==
    <<"a", "\r", "\t", "=">>
InNonAscii ==
    <<"é", " ", "=">>
InCommentGap ==
    <<"#", "a", "\n", " ", "\n", "#", "b", "\n", "=", " ", "#", "c">>
InKeywords ==
    <<"e", "n", "u", "m", " ", "r", "e", "c", "o", "r", "d", " ", "i", "n", "t", "e", "r", "f", "a", "c", "e", " ", "s", "t", "a", "t", "i", "c", " ", "d", "e", "r", "i", "v", "i", "n", "g", " ", "b", "o", "o", "l", " ", "i", "8", " ", "i", "1", "6", " ", "i", "3", "2", " ", "i", "6", "4", " ", "f", "3", "2", " ", "f", "6", "4", " ", "s", "t", "r", "i", "n", "g", " ", "b", "i", "n", "a", "r", "y", " ", "d", "a", "t", "e", " ", "l", "i", "s", "t", " ", "s", "e", "t", " ", "m", "a", "p", " ", "o", "p", "t", "i", "o", "n", "a", "l">>
InApi ==
    <<"#", " ", "A", "c", "c", "o", "u", "n", "t", "s", "\n", "a", "c", "c", "o", "u", "n", "t", "s", "_", "A", "P", "I", " ", "=", " ", "i", "n", "t", "e", "r", "f", "a", "c", "e", " ", "+", "c", " ", "{", "\n", "\t", "s", "t", "a", "t", "i", "c", " ", "c", "r", "e", "a", "t", "e", "(", ")", ":", " ", "a", "c", "c", "o", "u", "n", "t", "s", "_", "A", "P", "I", ";", "\n", "}">>
InGeneric ==
    <<"f", "(", "i", "d", ":", " ", "o", "p", "t", "i", "o", "n", "a", "l", "<", "s", "t", "r", "i", "n", "g", ">", ")", ":", " ", "r", ";">>
InOpenQuoteEnd ==
    <<"@", "i", "m", "p", "o", "r", "t", " ", "\"", "a", "/", "b">>
InOpenQuoteNewline ==
    <<"=", "\n", "\t", "\"", "a", "\n", "\"">>
InTabs ==
    <<"a", "\t", "=", " ", "\t", "b", "\r", "\n", "\t", "\t", "@", "x">>
InLangs ==
    <<"+", "j", " ", "+", "o", "+", "c", "j">>

ScenarioInputs ==
    {InPaths, InTwoComments, InThreeComments, InOptional, InOptionalValue,
     InOptionalUpper, InOptionals, InAbcDash, InXyzPlus, InUnknown, InExterns,
     InImportX, InExternImport, InCpp, InCrTab, InNonAscii, InCommentGap,
     InKeywords, InApi, InGeneric, InOpenQuoteEnd, InOpenQuoteNewline, InTabs,
     InLangs}

Inputs == BoundedInputs \cup ScenarioInputs

(***************************************************************************)
(* The state machine: a call of tokenize on some input.  cmp is the state  *)
(* of a comparison of tokens, which a call of tokenize leaves alone.       *)
(***************************************************************************)
NoCmp ==
    [a |-> Token("Equal", <<>>, LocDefault), b |-> Token("Equal", <<>>, LocDefault),
     c |-> Token("Equal", <<>>, LocDefault), done |-> TRUE,
     aa |-> TRUE, ab |-> TRUE, ba |-> TRUE, bc |-> TRUE, ac |-> TRUE]

Cur ==
    [pos |-> pos, loc |-> loc, tokens |-> tokens, starts |-> starts,
     result |-> result]

Apply(s) ==
    /\ pos' = s.pos
    /\ loc' = s.loc
    /\ tokens' = s.tokens
    /\ starts' = s.starts
    /\ result' = s.result
    /\ input' = input
    /\ cmp' = cmp

\* mutant of Scanning: the loop goes on after an error was raised
ScanningAfterErr == pos < Len(input)

Scanning == result.tag = "Pending" /\ pos < Len(input)

AtArm(a) == Scanning /\ ArmOf(input[pos + 1]) = a

Init ==
    /\ input \in Inputs
    /\ pos = Start.pos
    /\ loc = Start.loc
    /\ tokens = Start.tokens
    /\ starts = Start.starts
    /\ result = Start.result
    /\ cmp = NoCmp

WhitespaceArm == AtArm("Whitespace") /\ Apply(WhitespaceStep(input, Cur))

CommentArm == AtArm("Comment") /\ Apply(CommentStep(input, Cur))

DirectiveArm == AtArm("Directive") /\ Apply(DirectiveStep(input, Cur))

PunctArm == AtArm("Punct") /\ Apply(PunctStep(input, Cur))

LangArm == AtArm("Lang") /\ Apply(LangStep(input, Cur))

WordArm == AtArm("Word") /\ Apply(WordStep(input, Cur))

InvalidArm == AtArm("Invalid") /\ Apply(InvalidStep(input, Cur))

Finish ==
    /\ result.tag = "Pending"
    /\ pos >= Len(input)
    /\ Apply(FinishStep(input, Cur))

Next ==
    \/ WhitespaceArm
    \/ CommentArm
    \/ DirectiveArm
    \/ PunctArm
    \/ LangArm
    \/ WordArm
    \/ InvalidArm
    \/ Finish

Spec == Init /\ [][Next]_vars

\* the same call on the inputs over a smaller alphabet, run to its return:
\* the loop is sequential code that waits for nothing
FairAlphabet == {" ", "\n", "#", "@", "+", "=", "c", "8"}

FairInputs == UNION {[1..n -> FairAlphabet] : n \in 0..MaxLen} \cup ScenarioInputs

FairInit ==
    /\ input \in FairInputs
    /\ pos = Start.pos
    /\ loc = Start.loc
    /\ tokens = Start.tokens
    /\ starts = Start.starts
    /\ result = Start.result
    /\ cmp = NoCmp

FairSpec == FairInit /\ [][Next]_vars /\ WF_vars(Next)

(***************************************************************************)
(* The comparison of tokens: a == b for tokens of every variant, as the    *)
(* tests compare the tokens of a result with tokens at Loc::default().     *)
(***************************************************************************)
EqLocs == {LocDefault, Loc(1, 2)}

EqTexts == {<<"a">>, <<"b">>}

\* tokens of every variant
EqTokens ==
    {Token(k, t, l) : k \in {"Identifier", "Comment"}, t \in EqTexts, l \in EqLocs}
        \cup {Token(k, <<>>, l) : k \in TokenKinds \ {"Identifier", "Comment"},
                                  l \in EqLocs}

\* the third token of a chain of comparisons
EqThird ==
    {t \in EqTokens : t.kind \in {"Identifier", "Comment", "Equal", "KeywordI8"}}

EqInit ==
    /\ input = <<>>
    /\ pos = Start.pos
    /\ loc = Start.loc
    /\ tokens = Start.tokens
    /\ starts = Start.starts
    /\ result = Start.result
    /\ \E a \in EqTokens, b \in EqTokens, c \in EqThird :
          cmp = [a |-> a, b |-> b, c |-> c, done |-> FALSE,
                 aa |-> FALSE, ab |-> FALSE, ba |-> FALSE, bc |-> FALSE,
                 ac |-> FALSE]

Compare ==
    /\ ~cmp.done
    /\ cmp' = [cmp EXCEPT !.done = TRUE,
                          !.aa = token_eq(cmp.a, cmp.a),
                          !.ab = token_eq(cmp.a, cmp.b),
                          !.ba = token_eq(cmp.b, cmp.a),
                          !.bc = token_eq(cmp.b, cmp.c),
                          !.ac = token_eq(cmp.a, cmp.c)]
    /\ UNCHANGED <<input, pos, loc, tokens, starts, result>>

EqNext == Compare

EqSpec == EqInit /\ [][EqNext]_vars

TypeOK ==
    /\ pos \in 0..Len(input)
    /\ Len(starts) = Len(tokens)
    /\ result.tag \in {"Pending", "Ok", "Err"}

(***************************************************************************)
(* Definitions shared by the properties.                                   *)
(***************************************************************************)
Done == result.tag # "Pending"

Kinds(toks) == [i \in 1..Len(toks) |-> toks[i].kind]

Min(S) == CHOOSE m \in S : \A n \in S : m <= n

\* the number of newline characters before position p of the text
NewlinesBefore(in, p) == Cardinality({i \in 1..(p - 1) : in[i] = "\n"})

\* the characters after position p up to the next newline or the end
RestOfLine(in, p) ==
    LET nl == {i \in (p + 1)..Len(in) : in[i] = "\n"}
    IN  SubSeq(in, p + 1, IF nl = {} THEN Len(in) ELSE Min(nl) - 1)

\* the last position of the maximal run of characters of S that starts at p
RunLast(in, p, S) ==
    LET stop == {i \in p..Len(in) : in[i] \notin S}
    IN  IF stop = {} THEN Len(in) ELSE Min(stop) - 1

LocLE(a, b) == a.line < b.line \/ (a.line = b.line /\ a.column <= b.column)

(***************************************************************************)
(* C1: on success every token's line is the number of newlines before its  *)
(* first character; a comment and its newline count as one line.           *)
(***************************************************************************)
C1_LineOfFirstChar ==
    result.tag = "Ok" =>
        \A i \in 1..Len(result.tokens) :
            result.tokens[i].loc.line = NewlinesBefore(input, starts[i])

(***************************************************************************)
(* C2: tokenize is fail-fast.  Ok carries the whole token list and comes   *)
(* only when the input is consumed; Err carries no token and is raised at  *)
(* the first offending position, the input before it tokenizing without    *)
(* error to the tokens scanned so far; after the result nothing moves.     *)
(***************************************************************************)
C2_Result ==
    /\ result.tag = "Ok" => pos = Len(input) /\ result.tokens = tokens
    /\ result.tag = "Err" =>
          /\ result.tokens = <<>>
          /\ result.err \in {"InvalidChar", "UnknownDirective", "UnknownLanguage"}
          /\ \E q \in 1..pos :
                /\ tokenize(SubSeq(input, 1, q - 1)) = Ok(tokens)
                /\ tokenize(SubSeq(input, 1, pos)) = result

C2_FailFast == [](C2_Result) /\ [][Done => UNCHANGED vars]_vars

C2_Witness == result.tag = "Err" /\ tokens # <<>> /\ pos < Len(input)

(***************************************************************************)
(* C3: a double quote opens a path literal emitted as one FilePath token;  *)
(* the two-directive scenario yields DirectiveExtern, FilePath("a/b.yaml"),*)
(* DirectiveImport, FilePath("a/b.idl").                                   *)
(***************************************************************************)
C3_QuotedPath ==
    (input = InPaths /\ Done) =>
          /\ result.tag = "Ok"
          /\ Kinds(result.tokens) =
                <<"DirectiveExtern", "FilePath", "DirectiveImport", "FilePath">>
          /\ result.tokens[2].text = <<"a", "/", "b", ".", "y", "a", "m", "l">>
          /\ result.tokens[4].text = <<"a", "/", "b", ".", "i", "d", "l">>

(***************************************************************************)
(* C4: comment merge law.  A comment scanned while the last token is a     *)
(* Comment is appended to it after one newline, and k consecutive comment  *)
(* lines yield one Comment whose text is the k line texts joined by        *)
(* newlines.                                                               *)
(***************************************************************************)
\* every line of the text starts with '#'
CommentBlock(in) ==
    /\ in # <<>>
    /\ in[1] = "#"
    /\ \A i \in 1..Len(in) : in[i] = "\n" => (i < Len(in) /\ in[i + 1] = "#")

\* the text from position i on, without the first character of each line
RECURSIVE WithoutLineStarts(_, _)
WithoutLineStarts(in, i) ==
    IF i > Len(in)
    THEN <<>>
    ELSE (IF i = 1 \/ in[i - 1] = "\n" THEN <<>> ELSE <<in[i]>>)
             \o WithoutLineStarts(in, i + 1)

C4_Block ==
    /\ (result.tag = "Ok" /\ CommentBlock(input)) =>
          result.tokens =
              <<Token("Comment", WithoutLineStarts(input, 1), LocDefault)>>
    /\ (Done /\ input = InTwoComments) =>
          result = Ok(<<Token("Comment", <<" ", "A", "\n", " ", "B">>, LocDefault)>>)

C4_MergeStep ==
    (AtArm("Comment") /\ tokens # <<>> /\ tokens[Len(tokens)].kind = "Comment") =>
        /\ Len(tokens') = Len(tokens)
        /\ SubSeq(tokens', 1, Len(tokens) - 1) = SubSeq(tokens, 1, Len(tokens) - 1)
        /\ tokens'[Len(tokens)].kind = "Comment"
        /\ tokens'[Len(tokens)].text =
              tokens[Len(tokens)].text \o <<"\n">> \o RestOfLine(input, pos + 1)

C4_CommentMerge == [](C4_Block) /\ [][C4_MergeStep]_vars

C4_Witness ==
    /\ result.tag = "Ok"
    /\ CommentBlock(input)
    /\ Cardinality({i \in 1..Len(input) : input[i] = "\n"}) >= 2

(***************************************************************************)
(* C5: in every state of the scan and in every result no two adjacent      *)
(* tokens are both Comment.                                                *)
(***************************************************************************)
NoAdjacentComments(toks) ==
    \A i \in 1..(Len(toks) - 1) :
        ~(toks[i].kind = "Comment" /\ toks[i + 1].kind = "Comment")

C5_NoAdjacentComments ==
    NoAdjacentComments(tokens) /\ NoAdjacentComments(result.tokens)

C5_Witness ==
    /\ result.tag = "Ok"
    /\ Len(tokens) >= 2
    /\ \E i \in 1..Len(tokens) :
          tokens[i].kind = "Comment" /\ "\n" \in {tokens[i].text[j] : j \in 1..Len(tokens[i].text)}

(***************************************************************************)
(* C6: on success the locations are non-decreasing in (line, column) order *)
(* along the list, and the list order is the order of the tokens' first    *)
(* characters in the input.                                                *)
(***************************************************************************)
C6_Monotone ==
    result.tag = "Ok" =>
        /\ \A i \in 1..Len(result.tokens) : starts[i] \in 1..Len(input)
        /\ \A i \in 1..(Len(result.tokens) - 1) :
              /\ LocLE(result.tokens[i].loc, result.tokens[i + 1].loc)
              /\ starts[i] < starts[i + 1]

C6_Witness ==
    /\ result.tag = "Ok"
    /\ Len(result.tokens) >= 3
    /\ result.tokens[1].loc.line = result.tokens[2].loc.line
    /\ result.tokens[2].loc.line < result.tokens[3].loc.line

(***************************************************************************)
(* C7: a word is the maximal run of alphanumeric/underscore characters     *)
(* from an alphabetic or underscore character; it yields exactly one       *)
(* token, the keyword iff the whole word is one of the 19 spellings        *)
(* (case-sensitive), Identifier(word) otherwise.                           *)
(***************************************************************************)
Spelling ==
    [KeywordEnum |-> <<"e", "n", "u", "m">>,
     KeywordRecord |-> <<"r", "e", "c", "o", "r", "d">>,
     KeywordInterface |-> <<"i", "n", "t", "e", "r", "f", "a", "c", "e">>,
     KeywordStatic |-> <<"s", "t", "a", "t", "i", "c">>,
     KeywordDeriving |-> <<"d", "e", "r", "i", "v", "i", "n", "g">>,
     KeywordBool |-> <<"b", "o", "o", "l">>,
     KeywordI8 |-> <<"i", "8">>,
     KeywordI16 |-> <<"i", "1", "6">>,
     KeywordI32 |-> <<"i", "3", "2">>,
     KeywordI64 |-> <<"i", "6", "4">>,
     KeywordF32 |-> <<"f", "3", "2">>,
     KeywordF64 |-> <<"f", "6", "4">>,
     KeywordString |-> <<"s", "t", "r", "i", "n", "g">>,
     KeywordBinary |-> <<"b", "i", "n", "a", "r", "y">>,
     KeywordDate |-> <<"d", "a", "t", "e">>,
     KeywordList |-> <<"l", "i", "s", "t">>,
     KeywordSet |-> <<"s", "e", "t">>,
     KeywordMap |-> <<"m", "a", "p">>,
     KeywordOptional |-> <<"o", "p", "t", "i", "o", "n", "a", "l">>]

KeywordKinds == DOMAIN Spelling

WordChars == Lower \cup Upper \cup NonAsciiAlpha \cup Digit \cup {"_"}

WordStartChars == Lower \cup Upper \cup NonAsciiAlpha \cup {"_"}

\* the token a word stands for
WordToken(w, l) ==
    IF \E k \in KeywordKinds : Spelling[k] = w
    THEN Token(CHOOSE k \in KeywordKinds : Spelling[k] = w, <<>>, l)
    ELSE Token("Identifier", w, l)

C7_WordBoundary ==
    /\ Cardinality(KeywordKinds) = 19
    /\ \A i \in 1..Len(tokens) :
          tokens[i].kind \in KeywordKinds \cup {"Identifier"} =>
              LET e == RunLast(input, starts[i], WordChars)
                  w == SubSeq(input, starts[i], e)
              IN  /\ input[starts[i]] \in WordStartChars
                  /\ tokens[i] = WordToken(w, tokens[i].loc)
                  /\ i < Len(tokens) => starts[i + 1] > e
    /\ (Scanning /\ input[pos + 1] \in WordStartChars) =>
          Len(Step(input, Cur).tokens) = Len(tokens) + 1
    /\ (Done /\ input = InOptional) =>
          result = Ok(<<Token("KeywordOptional", <<>>, LocDefault)>>)
    /\ (Done /\ input \in {InOptionalValue, InOptionalUpper, InOptionals}) =>
          result = Ok(<<Token("Identifier", input, LocDefault)>>)

\* an identifier that starts with the spelling of a keyword
C7_Witness ==
    /\ result.tag = "Ok"
    /\ \E i \in 1..Len(tokens) :
          /\ tokens[i].kind = "Identifier"
          /\ Len(tokens[i].text) > 2
          /\ SubSeq(tokens[i].text, 1, 2) = Spelling.KeywordI8
          /\ starts[i] > 1

(***************************************************************************)
(* C8: a character at a token start that is not whitespace, not '#', '@',  *)
(* '+', not one of = : ; ( ) { } < > and not alphabetic or underscore      *)
(* makes tokenize return InvalidChar at the tracker's location; "abc -"    *)
(* fails at line 0, column 4.                                              *)
(***************************************************************************)
NoTokenStart(c) ==
    /\ c \notin {" ", "\t", "\r", "\n", "#", "@", "+"}
    /\ c \notin {"=", ":", ";", "(", ")", "{", "}", "<", ">"}
    /\ c \notin Lower \cup Upper \cup NonAsciiAlpha \cup {"_"}

C8_Step ==
    (Scanning /\ NoTokenStart(input[pos + 1])) =>
        (result' = Err("InvalidChar", loc) /\ tokens' = tokens)

C8_InvalidChar ==
    /\ []((Done /\ input = InAbcDash) => result = Err("InvalidChar", Loc(0, 4)))
    /\ []((result.tag = "Err" /\ result.err = "InvalidChar") =>
              NoTokenStart(input[pos]))
    /\ [][C8_Step]_vars

C8_Witness ==
    /\ result.tag = "Err"
    /\ result.err = "InvalidChar"
    /\ input[pos] \in Digit
    /\ result.loc.line > 0
    /\ result.loc.column > 0

(***************************************************************************)
(* C9: '+' followed by anything but 'c', 'j', 'o', or by the end of the    *)
(* input, makes tokenize return UnknownLanguage at the location of the     *)
(* '+'; "xyz\n+x" fails at line 1, column 0.                               *)
(***************************************************************************)
C9_Step ==
    (/\ Scanning
     /\ input[pos + 1] = "+"
     /\ (pos + 1 = Len(input) \/ input[pos + 2] \notin {"c", "j", "o"})) =>
        (result' = Err("UnknownLanguage", loc) /\ tokens' = tokens)

C9_UnknownLanguage ==
    /\ []((Done /\ input = InXyzPlus) => result = Err("UnknownLanguage", Loc(1, 0)))
    /\ [][C9_Step]_vars

C9_Witness ==
    /\ result.tag = "Err"
    /\ result.err = "UnknownLanguage"
    /\ pos = Len(input)
    /\ input[pos] = "+"
    /\ result.loc.column > 0

(***************************************************************************)
(* C10: the maximal run of alphabetic/underscore characters after '@' is   *)
(* the directive word: "extern" gives DirectiveExtern and "import" gives   *)
(* DirectiveImport at the '@', any other word UnknownDirective at the '@'. *)
(***************************************************************************)
DirectiveChars == Lower \cup Upper \cup NonAsciiAlpha \cup {"_"}

C10_Step ==
    (Scanning /\ input[pos + 1] = "@") =>
        LET w == SubSeq(input, pos + 2, RunLast(input, pos + 2, DirectiveChars))
        IN  CASE w = <<"e", "x", "t", "e", "r", "n">> ->
                   /\ tokens' = Append(tokens, Token("DirectiveExtern", <<>>, loc))
                   /\ result' = Pending
              [] w = <<"i", "m", "p", "o", "r", "t">> ->
                   /\ tokens' = Append(tokens, Token("DirectiveImport", <<>>, loc))
                   /\ result' = Pending
              [] OTHER ->
                   /\ tokens' = tokens
                   /\ result' = Err("UnknownDirective", loc)

C10_Directive ==
    /\ []((Done /\ input \in {InUnknown, InExterns, InImportX}) =>
              result = Err("UnknownDirective", LocDefault))
    /\ []((Done /\ input = InExternImport) =>
              result = Ok(<<Token("DirectiveExtern", <<>>, Loc(0, 0)),
                            Token("DirectiveImport", <<>>, Loc(0, 8))>>))
    /\ [][C10_Step]_vars

C10_Witness ==
    /\ result.tag = "Err"
    /\ result.err = "UnknownDirective"
    /\ input = InExterns

C10_WitnessOk == result.tag = "Ok" /\ input = InExternImport

(***************************************************************************)
(* C11: an opening double quote followed by a newline or by the end of the *)
(* input before any closing double quote makes tokenize return             *)
(* InvalidFilePath at the location of the opening double quote.            *)
(***************************************************************************)
\* the double quote at position p has no closing double quote on its line
Unterminated(in, p) ==
    /\ in[p] = "\""
    /\ \A i \in (p + 1)..(p + Len(RestOfLine(in, p))) : in[i] # "\""

C11_UnterminatedPath ==
    /\ (Done /\ input = InOpenQuoteEnd) =>
          result = Err("InvalidFilePath", Loc(0, 8))
    /\ (Done /\ input = InOpenQuoteNewline) =>
          result = Err("InvalidFilePath", Loc(1, 4))
    /\ (result.tag = "Err" /\ pos > 0 /\ Unterminated(input, pos)) =>
          result.err = "InvalidFilePath"

(***************************************************************************)
(* C12: for an ASCII input the column of every token and of the error is   *)
(* the sum of the widths of the characters from the start of its line to   *)
(* its first character: 4 for a tab wherever it stands, 1 for any other    *)
(* character, carriage return included; a newline resets the column.       *)
(***************************************************************************)
Max(S) == CHOOSE m \in S : \A n \in S : m >= n

IsAscii(in) == \A i \in 1..Len(in) : in[i] \notin NonAsciiAlpha

\* the position of the first character of the line of position p
LineStart(in, p) ==
    LET nl == {i \in 1..(p - 1) : in[i] = "\n"}
    IN  IF nl = {} THEN 1 ELSE Max(nl) + 1

\* the column of position p: the widths of the characters before it on its line
ColumnOf(in, p) ==
    LET before == LineStart(in, p)..(p - 1)
    IN  4 * Cardinality({i \in before : in[i] = "\t"})
          + Cardinality({i \in before : in[i] # "\t"})

\* the position of the first character of the token the error was raised for
ErrStart ==
    IF result.err = "UnknownDirective"
    THEN Max({q \in 1..pos : input[q] = "@"})
    ELSE pos

C12_Columns ==
    IsAscii(input) =>
        /\ \A i \in 1..Len(tokens) :
              tokens[i].loc.column = ColumnOf(input, starts[i])
        /\ result.tag = "Err" => result.loc.column = ColumnOf(input, ErrStart)
        /\ (Done /\ input = InTabs) => result = Err("UnknownDirective", Loc(1, 8))

\* a token right after a tab that does not stand on a tab stop
C12_Witness ==
    /\ result.tag = "Ok"
    /\ IsAscii(input)
    /\ \E i \in 1..Len(tokens) :
          /\ starts[i] > 2
          /\ input[starts[i] - 1] = "\t"
          /\ input[starts[i] - 2] = " "
          /\ tokens[i].loc.column = 5

(***************************************************************************)
(* C13: tokenize terminates on every input.  The cursor only moves         *)
(* forward, every iteration takes at least one character, the number of    *)
(* characters taken never exceeds the length of the input, and the call    *)
(* returns.                                                                *)
(***************************************************************************)
\* what is left to do: the characters not yet taken, and the return
Measure == (Len(input) - pos) + (IF result.tag = "Pending" THEN 1 ELSE 0)

C13_Progress ==
    /\ Measure' < Measure
    /\ pos' >= pos
    /\ result'.tag = "Ok" => pos' = pos
    /\ result'.tag # "Ok" => pos' > pos

C13_Terminates ==
    /\ [](pos <= Len(input))
    /\ [](result.tag = "Pending" => ENABLED Next)
    /\ [][C13_Progress]_vars
    /\ <>Done

C13_Witness == Done /\ pos = Len(input) /\ Len(input) > MaxLen

(***************************************************************************)
(* C14: whitespace never produces a token.  An input of spaces, tabs,      *)
(* carriage returns and newlines only, the empty input included, gives Ok  *)
(* with no token, and whitespace inserted between two tokens of an input   *)
(* changes neither the kinds nor the payloads of the tokens.               *)
(***************************************************************************)
WsChars == {" ", "\t", "\r", "\n"}

WsOnly(in) == \A i \in 1..Len(in) : in[i] \in WsChars

\* the text with the character w inserted before position p
Insert(in, p, w) == SubSeq(in, 1, p - 1) \o <<w>> \o SubSeq(in, p, Len(in))

Payloads(toks) == [i \in 1..Len(toks) |-> <<toks[i].kind, toks[i].text>>]

\* the first position after token i: whitespace runs from there to token i+1
AfterToken(i) ==
    Max({q \in 1..(starts[i + 1] - 1) : input[q] \notin WsChars}) + 1

\* the newline that ends the (last line of the) Comment token i
CommentNewline(i) ==
    Min({q \in AfterToken(i)..(starts[i + 1] - 1) : input[q] = "\n"})

\* the positions between token i and token i+1: a character inserted before
\* one of them stands after the last character of token i and before the
\* first character of token i+1
Between(i) ==
    IF tokens[i].kind = "Comment"
    THEN CommentNewline(i)..starts[i + 1]
    ELSE AfterToken(i)..starts[i + 1]

\* on the line of a Comment, right after its text
EndsComment(i, p, w) ==
    tokens[i].kind = "Comment" /\ p = CommentNewline(i) /\ w # "\n"

C14_Empty == (Done /\ WsOnly(input)) => result = Ok(<<>>)

\* the claim as stated: no insertion between two tokens changes a payload
C14_Original ==
    /\ C14_Empty
    /\ result.tag = "Ok" =>
          \A i \in 1..(Len(tokens) - 1) : \A p \in Between(i) : \A w \in WsChars :
              LET r == tokenize(Insert(input, p, w))
              IN  r.tag = "Ok" /\ Payloads(r.tokens) = Payloads(tokens)

\* amended: but for a space, tab or carriage return put right after the text
\* of a Comment, which is appended to that text
C14_Whitespace ==
    /\ C14_Empty
    /\ result.tag = "Ok" =>
          \A i \in 1..(Len(tokens) - 1) : \A p \in Between(i) : \A w \in WsChars :
              LET r == tokenize(Insert(input, p, w))
              IN  /\ r.tag = "Ok"
                  /\ Payloads(r.tokens) =
                        IF EndsComment(i, p, w)
                        THEN [Payloads(tokens) EXCEPT ![i][2] = @ \o <<w>>]
                        ELSE Payloads(tokens)

C14_Witness ==
    /\ result.tag = "Ok"
    /\ Len(tokens) >= 3
    /\ tokens[1].kind = "Comment"
    /\ tokens[2].kind # "Comment"
    /\ starts[3] = starts[2] + 1

C14_WitnessEmpty == Done /\ WsOnly(input) /\ Len(input) = MaxLen

(***************************************************************************)
(* C15: token equality ignores the location.  Two tokens are equal iff     *)
(* they are of the same variant and, for Identifier and Comment, carry the *)
(* same text, whatever their locations; tokens of different variants are   *)
(* never equal; the relation is reflexive, symmetric and transitive.       *)
(***************************************************************************)
SameKindAndText(a, b) ==
    /\ a.kind = b.kind
    /\ a.kind \in {"Identifier", "Comment"} => a.text = b.text

C15_TokenEq ==
    cmp.done =>
        /\ cmp.ab = SameKindAndText(cmp.a, cmp.b)
        /\ cmp.a.kind # cmp.b.kind => ~cmp.ab
        /\ cmp.aa
        /\ cmp.ab = cmp.ba
        /\ (cmp.ab /\ cmp.bc) => cmp.ac

C15_Witness ==
    /\ cmp.done
    /\ cmp.ab
    /\ cmp.bc
    /\ cmp.a.kind = "Comment"
    /\ cmp.a.loc # cmp.b.loc

(***************************************************************************)
(* C16: '+' followed by 'c', 'j' or 'o' emits exactly one token, LangCpp,  *)
(* LangJava or LangObjC, at the location of the '+', takes exactly the two *)
(* characters and advances the column by 2; what follows is tokenized on   *)
(* its own: "+cpp" gives LangCpp and Identifier("pp") two columns on.      *)
(***************************************************************************)
LangOf == [c |-> "LangCpp", j |-> "LangJava", o |-> "LangObjC"]

C16_Step ==
    (/\ Scanning
     /\ input[pos + 1] = "+"
     /\ pos + 2 <= Len(input)
     /\ input[pos + 2] \in DOMAIN LangOf) =>
        /\ tokens' = Append(tokens, Token(LangOf[input[pos + 2]], <<>>, loc))
        /\ pos' = pos + 2
        /\ loc' = Loc(loc.line, loc.column + 2)
        /\ result' = Pending

C16_Lang ==
    /\ []((Done /\ input = InCpp) =>
              result = Ok(<<Token("LangCpp", <<>>, Loc(0, 0)),
                            Token("Identifier", <<"p", "p">>, Loc(0, 2))>>))
    /\ []((Done /\ input = InLangs) =>
              result = Ok(<<Token("LangJava", <<>>, Loc(0, 0)),
                            Token("LangObjC", <<>>, Loc(0, 3)),
                            Token("LangCpp", <<>>, Loc(0, 5)),
                            Token("Identifier", <<"j">>, Loc(0, 7))>>))
    /\ [][C16_Step]_vars

C16_Witness ==
    /\ result.tag = "Ok"
    /\ Len(tokens) = 2
    /\ tokens[1].kind = "LangCpp"
    /\ tokens[2].kind = "Identifier"
    /\ starts[2] = starts[1] + 2
    /\ starts[1] > 1

(***************************************************************************)
(* C17: a word of n characters advances the column by n, also when it has  *)
(* alphabetic characters outside ASCII, and a directive by the characters  *)
(* of its word + 1; so the next token of the line is reported at the       *)
(* character column of its first character.                                *)
(***************************************************************************)
C17_Step ==
    /\ AtArm("Word") =>
          loc'.column = loc.column + (RunLast(input, pos + 1, WordChars) - pos)
    /\ (AtArm("Directive") /\ result'.tag = "Pending") =>
          loc'.column = loc.column + (RunLast(input, pos + 2, DirectiveChars) - pos)

C17_CharColumns ==
    /\ [](\A i \in 1..Len(tokens) : tokens[i].loc.column = ColumnOf(input, starts[i]))
    /\ [][C17_Step]_vars

(***************************************************************************)
(* C18: comment merging depends on the last emitted token only.  Two '#'   *)
(* comments are merged iff no other token was emitted between them,        *)
(* whatever blank lines and whitespace separate them; a comment after a    *)
(* token that is not a Comment starts a new Comment token.                 *)
(***************************************************************************)
\* the positions where a comment starts: a '#' with no '#' before it on its line
CommentStarts(in) ==
    {p \in 1..Len(in) :
        in[p] = "#" /\ \A q \in LineStart(in, p)..(p - 1) : in[q] # "#"}

\* a comment start that is the first one, or has a token that is not a
\* Comment between the comment start before it and itself
OpensComment(p) ==
    LET prev == {q \in CommentStarts(input) : q < p}
    IN  \/ prev = {}
        \/ \E i \in 1..Len(tokens) :
              /\ tokens[i].kind # "Comment"
              /\ Max(prev) < starts[i]
              /\ starts[i] < p

C18_Step ==
    AtArm("Comment") =>
        IF tokens # <<>> /\ tokens[Len(tokens)].kind = "Comment"
        THEN Len(tokens') = Len(tokens) /\ Kinds(tokens') = Kinds(tokens)
        ELSE tokens' =
                 Append(tokens, Token("Comment", RestOfLine(input, pos + 1), loc))

C18_Result ==
    /\ result.tag = "Ok" =>
          {starts[i] : i \in {j \in 1..Len(tokens) : tokens[j].kind = "Comment"}}
              = {p \in CommentStarts(input) : OpensComment(p)}
    /\ (Done /\ input = InCommentGap) =>
          /\ result.tag = "Ok"
          /\ Payloads(result.tokens) =
                <<<<"Comment", <<"a", "\n", "b">>>>, <<"Equal", <<>>>>,
                  <<"Comment", <<"c">>>>>>

C18_MergeRule == [](C18_Result) /\ [][C18_Step]_vars

C18_Witness ==
    /\ result.tag = "Ok"
    /\ input = InCommentGap
    /\ Kinds(tokens) = <<"Comment", "Equal", "Comment">>

(***************************************************************************)
(* C19: frame condition on the token list.  A step leaves the list as it   *)
(* is, appends one token, or extends the text of the last token when it is *)
(* a Comment; no token is removed or reordered, no token but the last      *)
(* changes, and a merged Comment keeps the location of its first '#'.      *)
(***************************************************************************)
IsPrefix(u, v) == Len(u) <= Len(v) /\ SubSeq(v, 1, Len(u)) = u

C19_Step ==
    \/ tokens' = tokens
    \/ /\ Len(tokens') = Len(tokens) + 1
       /\ SubSeq(tokens', 1, Len(tokens)) = tokens
    \/ /\ tokens # <<>>
       /\ Len(tokens') = Len(tokens)
       /\ SubSeq(tokens', 1, Len(tokens) - 1) = SubSeq(tokens, 1, Len(tokens) - 1)
       /\ tokens[Len(tokens)].kind = "Comment"
       /\ tokens'[Len(tokens)].kind = "Comment"
       /\ tokens'[Len(tokens)].loc = tokens[Len(tokens)].loc
       /\ IsPrefix(tokens[Len(tokens)].text, tokens'[Len(tokens)].text)

\* a merged Comment is where the first '#' of its block is
C19_FirstHash ==
    \A i \in 1..Len(tokens) :
        tokens[i].kind = "Comment" =>
            /\ input[starts[i]] = "#"
            /\ tokens[i].loc.column = ColumnOf(input, starts[i])

C19_Frame == [](IsAscii(input) => C19_FirstHash) /\ [][C19_Step]_vars

C19_Witness ==
    /\ Len(tokens) = 2
    /\ tokens[2].kind = "Comment"
    /\ tokens[2].loc.column > 0
    /\ \E j \in 1..Len(tokens[2].text) : tokens[2].text[j] = "\n"

(***************************************************************************)
(* C20: every Identifier of a result is not empty, starts with an          *)
(* alphabetic character or an underscore, has alphanumeric characters and  *)
(* underscores only, is a contiguous part of the input and is none of the  *)
(* 19 keyword spellings.                                                   *)
(***************************************************************************)
C20_Identifiers ==
    \A i \in 1..Len(result.tokens) :
        result.tokens[i].kind = "Identifier" =>
            LET w == result.tokens[i].text
            IN  /\ w # <<>>
                /\ w[1] \in WordStartChars
                /\ \A j \in 1..Len(w) : w[j] \in WordChars
                /\ \E p \in 1..Len(input) :
                      p + Len(w) - 1 <= Len(input) /\ SubSeq(input, p, p + Len(w) - 1) = w
                /\ \A k \in KeywordKinds : Spelling[k] # w

C20_Witness ==
    /\ result.tag = "Ok"
    /\ \E i \in 1..Len(result.tokens) :
          /\ result.tokens[i].kind = "Identifier"
          /\ Len(result.tokens[i].text) = 2
          /\ result.tokens[i].text[2] \in Digit
          /\ starts[i] > 1

====
